---- MODULE Spec2Model ----
(***************************************************************************)
(* Model of application-code/ecsdemo-cicd/.dagger/src/ecsdemo_cicd/main.py *)
(* (class EcsdemoCicd): the build / push pipeline and the deploy flow that *)
(* resolves the latest task definition of a family, rewrites its container *)
(* images, registers the result as a new revision and points the ECS       *)
(* service at it.                                                          *)
(*                                                                         *)
(* A task definition body and a container definition are Python dicts:     *)
(* they are modelled as functions whose DOMAIN is the set of keys present, *)
(* so that `'image' in ctr` is  "image" \in DOMAIN ctr  and dict.get is    *)
(* Get below.  An ARN is the pair (family, revision number).               *)
(***************************************************************************)
EXTENDS Integers, Sequences, FiniteSets, TLC

(* ---------------------------- bounds ----------------------------------- *)
\* number of deploy invocations, over all callers
MaxDeploys == 2
\* number of callers; the invocations of one caller follow one another
MaxCallers == 2
\* longest containerDefinitions list of an initially existing revision
MaxContainers == 2

Procs == 1..MaxCallers

(* ------------------------ values of the model -------------------------- *)
Families == {"web-task", "batch-task"}
Services == {"web-svc"}
Regions == {"us-west-2"}
Clusters == {"demo"}
\* image references the registry may hand back from publish
ImageRefs == {"registry/app:sha123", "registry/app:sha456"}
\* values of deploy's image parameter (str | None)
ImageArgs == {"None", "caller/app:tag"}
\* plaintext values of the three secrets
SecretValue == [access_key |-> "AKIA", secret_key |-> "s3cr3t", session_token |-> "t0k3n"]

None == "None"
NoArn == [family |-> "", revision |-> 0]
NoError == [type |-> "None", detail |-> ""]
NoBody == [family |-> ""]
NoResult == [service |-> "", taskDefinition |-> NoArn]

\* dict.get(key, default)
Get(d, k, default) == IF k \in DOMAIN d THEN d[k] ELSE default

Arn(f, n) == [family |-> f, revision |-> n]

(* --------------------- initially existing revisions -------------------- *)
ContainerPool ==
  { [name |-> "app", image |-> "old:1.0", essential |-> "true"],
    [name |-> "sidecar"],
    [name |-> "worker", image |-> "old:2.0"] }

ContainerNames == <<"app", "sidecar", "worker">>
Position(ctr) == CHOOSE k \in DOMAIN ContainerNames : ContainerNames[k] = ctr.name

\* container names are unique within a task definition; of the lists that
\* differ only in the order of their containers, one is taken
ContainerLists ==
  { cs \in UNION { [1..n -> ContainerPool] : n \in 1..MaxContainers } :
      \A i, j \in DOMAIN cs : i < j => Position(cs[i]) < Position(cs[j]) }

OptionalFields ==
  [volumes |-> <<"data">>, taskRoleArn |-> "role/task",
   executionRoleArn |-> "role/exec", networkMode |-> "awsvpc",
   requiresCompatibilities |-> <<"FARGATE">>, cpu |-> "256", memory |-> "512"]

\* which optional keys an existing revision carries
OptionalProfiles ==
  { DOMAIN OptionalFields, {}, {"volumes", "executionRoleArn", "cpu"} }

MakeBody(f, cs, present) ==
  [k \in {"family", "containerDefinitions"} \cup present |->
     IF k = "family" THEN f
     ELSE IF k = "containerDefinitions" THEN cs
     ELSE OptionalFields[k]]

\* every container list with all optional keys, and every choice of optional
\* keys with the two-container list of an image and an image-less container
InitialBodies(f) ==
  { MakeBody(f, cs, DOMAIN OptionalFields) : cs \in ContainerLists }
  \cup
  { MakeBody(f, <<[name |-> "app", image |-> "old:1.0", essential |-> "true"],
                  [name |-> "sidecar"]>>, pr) : pr \in OptionalProfiles }

DefaultBody(f) ==
  MakeBody(f, <<[name |-> "job", image |-> "old:3.0"]>>, {"cpu", "memory"})

VARIABLES
  revs,             \* ECS: family -> sequence of registered bodies (index = revision)
  svcTaskDef,       \* ECS: service -> ARN of the task definition it runs
  pc,               \* per invocation: the statement deploy is at
  args,             \* per invocation: the arguments deploy was called with
  image,            \* local variable `image` (the parameter, then push's result)
  latest_task_definition_arn,
  task_definition,  \* local dict returned by describe_task_definition
  new_task_definition_arn,
  result,           \* the value deploy returned
  raised,           \* the exception deploy raised
  log,              \* what the invocation printed
  calls,            \* remote operations the invocation issued, in order
  deploys,          \* number of invocations so far
  start,            \* per invocation: its number, what ECS held and who was
                    \* inside a call when it was called
  registrations     \* ECS audit trail: the revisions registered by deploy

vars == <<revs, svcTaskDef, pc, args, image, latest_task_definition_arn,
          task_definition, new_task_definition_arn, result, raised, log,
          calls, deploys, start, registrations>>

locals == <<latest_task_definition_arn, task_definition, new_task_definition_arn>>

NoArgs == [cluster |-> "", region |-> "", service |-> "",
           task_definition_family |-> "", image |-> None]

AllArns == UNION { { Arn(f, n) : n \in 1..Len(revs[f]) } : f \in Families }

Init ==
  /\ \E b0 \in InitialBodies("web-task") :
       \E others \in BOOLEAN :
         revs = [f \in Families |->
                   IF f = "web-task" THEN <<b0>>
                   ELSE IF others THEN <<DefaultBody(f)>>
                   ELSE <<>>]
  /\ svcTaskDef \in [Services -> AllArns]
  /\ pc = [p \in Procs |-> "idle"]
  /\ args = [p \in Procs |-> NoArgs]
  /\ image = [p \in Procs |-> None]
  /\ latest_task_definition_arn = [p \in Procs |-> NoArn]
  /\ task_definition = [p \in Procs |-> NoBody]
  /\ new_task_definition_arn = [p \in Procs |-> NoArn]
  /\ result = [p \in Procs |-> NoResult]
  /\ raised = [p \in Procs |-> NoError]
  /\ log = [p \in Procs |-> <<>>]
  /\ calls = [p \in Procs |-> <<>>]
  /\ deploys = 0
  /\ start = [p \in Procs |-> [revs |-> revs, svcTaskDef |-> svcTaskDef,
                               id |-> 0, running |-> {}]]
  /\ registrations = <<>>

Finished(p) == pc[p] \in {"done", "raised", "served"}

\* caller q is inside a call
Running(q) == pc[q] # "idle" /\ ~Finished(q)

\* one remote operation: its name, its arguments, whether it succeeded, its reply
Call(o, a, k, r) == [op |-> o, arg |-> a, ok |-> k, ret |-> r]

(* ------------------------------ deploy --------------------------------- *)
\* deploy(cluster, dir, access_key, secret_key, session_token, region,
\*        service, task_definition_family, image)
\* is called by caller p, whose previous call (if any) has ended: a fresh frame
Invoke(p) ==
  /\ pc[p] = "idle" \/ Finished(p)
  /\ deploys < MaxDeploys
  /\ deploys' = deploys + 1
  /\ start' = [start EXCEPT ![p] = [revs |-> revs, svcTaskDef |-> svcTaskDef,
                                    id |-> deploys + 1,
                                    running |-> { q \in Procs \ {p} : Running(q) }]]
  /\ \E c \in Clusters, r \in Regions, s \in Services, f \in Families, i \in ImageArgs :
       /\ args' = [args EXCEPT ![p] =
                     [cluster |-> c, region |-> r, service |-> s,
                      task_definition_family |-> f, image |-> i]]
       /\ image' = [image EXCEPT ![p] = i]
  /\ latest_task_definition_arn' = [latest_task_definition_arn EXCEPT ![p] = NoArn]
  /\ task_definition' = [task_definition EXCEPT ![p] = NoBody]
  /\ new_task_definition_arn' = [new_task_definition_arn EXCEPT ![p] = NoArn]
  /\ result' = [result EXCEPT ![p] = NoResult]
  /\ raised' = [raised EXCEPT ![p] = NoError]
  /\ log' = [log EXCEPT ![p] = <<>>]
  /\ calls' = [calls EXCEPT ![p] = <<>>]
  /\ pc' = [pc EXCEPT ![p] = "push"]
  /\ UNCHANGED <<revs, svcTaskDef, registrations>>

(* --------------------------- build / push ------------------------------ *)
Step(o, a) == [op |-> o, arg |-> [args |-> a]]

\* self.image and self.registry (constructor defaults)
BaseImage == "public.ecr.aws/docker/library/alpine:latest"
Registry == "ttl.sh/ecsdemo-cicd"

\* build(dir): the container pipeline, one step per chained call
build(dir) ==
  << Step("from_", <<BaseImage>>),
     Step("with_workdir", <<"/app">>),
     Step("with_mounted_directory", <<"/app", dir>>),
     Step("with_exec", <<"apk", "add", "--no-cache", "python3", "py3-pip">>),
     Step("with_exec", <<"python3", "-m", "venv", "/path/to/venv">>),
     Step("with_exec", <<"/path/to/venv/bin/pip3", "install", "-r", "requirements.txt">>) >>

\* push(dir): build, then entrypoint, then publish to the registry
push(dir) ==
  build(dir) \o
  << Step("with_entrypoint", <<"/path/to/venv/bin/python3", "app.py">>),
     Step("publish", <<Registry>>) >>

ExposedPort == 80

\* run(dir): build, then the exposed port, then the container as a service
run(dir) ==
  build(dir) \o
  << Step("with_exposed_port", <<ExposedPort>>),
     Step("as_service", <<"/path/to/venv/bin/python3", "app.py">>) >>

\* a pipeline that applies its remaining steps after the one that failed
ExecutedPastFailure(steps, n) ==
  [i \in 1..Len(steps) |->
     Call(steps[i].op, steps[i].arg, i # n + 1, [step |-> i])]

\* the first n steps of a pipeline succeeded; step n+1, if any, failed
Executed(steps, n) ==
  [i \in 1..(IF n < Len(steps) THEN n + 1 ELSE n) |->
     Call(steps[i].op, steps[i].arg, i <= n, [step |-> i])]

\* publish, the last step, replies with the image reference
Published(cs, ref) == [cs EXCEPT ![Len(cs)].ret = [ref |-> ref]]

\* the exception is caught and dropped, and deploy carries on with the try block
PropagateSwallowed(p, e) ==
  /\ pc' = [pc EXCEPT ![p] = "list"]
  /\ UNCHANGED <<raised, log>>

\* an exception leaves deploy without passing through the except clause
Propagate(p, e) ==
  /\ raised' = [raised EXCEPT ![p] = e]
  /\ pc' = [pc EXCEPT ![p] = "raised"]
  /\ UNCHANGED log

\* the except clause raising a new exception in place of the bare raise
ExceptWrapped(p, e) ==
  /\ log' = [log EXCEPT ![p] = Append(@, [msg |-> "Error updating ECS service", error |-> e])]
  /\ raised' = [raised EXCEPT ![p] = [type |-> "RuntimeError", detail |-> "deploy failed"]]
  /\ pc' = [pc EXCEPT ![p] = "raised"]

\* the except clause without its print
ExceptUnlogged(p, e) ==
  /\ raised' = [raised EXCEPT ![p] = e]
  /\ pc' = [pc EXCEPT ![p] = "raised"]
  /\ UNCHANGED log

\* an except clause whose message carries the secret key the client was given
ExceptLeaking(p, e) ==
  /\ log' = [log EXCEPT ![p] = Append(@, [msg |-> "Error updating ECS service",
                                           error |-> [type |-> e.type,
                                                     detail |-> SecretValue["secret_key"]]])]
  /\ raised' = [raised EXCEPT ![p] = e]
  /\ pc' = [pc EXCEPT ![p] = "raised"]

\* an except clause that, the first time, logs and starts the try block again
ExceptRetryOnce(p, e) ==
  /\ log' = [log EXCEPT ![p] = Append(@, [msg |-> "Error updating ECS service", error |-> e])]
  /\ IF \E i \in DOMAIN log[p] : log[p][i].msg = "Error updating ECS service"
     THEN /\ raised' = [raised EXCEPT ![p] = e]
          /\ pc' = [pc EXCEPT ![p] = "raised"]
     ELSE /\ pc' = [pc EXCEPT ![p] = "list"]
          /\ UNCHANGED raised

\* except Exception as e: print(f"Error updating ECS service: {e}"); raise
Except(p, e) ==
  /\ log' = [log EXCEPT ![p] = Append(@, [msg |-> "Error updating ECS service", error |-> e])]
  /\ raised' = [raised EXCEPT ![p] = e]
  /\ pc' = [pc EXCEPT ![p] = "raised"]

Error(t, d) == [type |-> t, detail |-> d]

\* a deploy that pushes only when the caller gave no image
PushUnlessImageGiven(p) ==
  /\ pc[p] = "push"
  /\ IF args[p].image # None
     THEN /\ pc' = [pc EXCEPT ![p] = "creds"]
          /\ UNCHANGED <<calls, image, raised, log>>
     ELSE LET steps == push(".") IN
          \E n \in 0..Len(steps) :
            IF n = Len(steps)
            THEN \E ref \in ImageRefs :
                   /\ calls' = [calls EXCEPT ![p] =
                                  @ \o Published(Executed(steps, n), ref)]
                   /\ image' = [image EXCEPT ![p] = ref]
                   /\ pc' = [pc EXCEPT ![p] = "creds"]
                   /\ UNCHANGED <<raised, log>>
            ELSE /\ calls' = [calls EXCEPT ![p] = @ \o Executed(steps, n)]
                 /\ Propagate(p, Error("ExecError", steps[n + 1].op))
                 /\ UNCHANGED image
  /\ UNCHANGED <<revs, svcTaskDef, args, locals, result, deploys, start, registrations>>

\* image = await self.push(dir)
Push(p) ==
  /\ pc[p] = "push"
  /\ LET steps == push(".") IN
     \E n \in 0..Len(steps) :
       IF n = Len(steps)
       THEN \E ref \in ImageRefs :
              /\ calls' = [calls EXCEPT ![p] =
                             @ \o Published(Executed(steps, n), ref)]
              /\ image' = [image EXCEPT ![p] = ref]
              /\ pc' = [pc EXCEPT ![p] = "creds"]
              /\ UNCHANGED <<raised, log>>
       ELSE /\ calls' = [calls EXCEPT ![p] = @ \o Executed(steps, n)]
            /\ Propagate(p, Error("ExecError", steps[n + 1].op))
            /\ UNCHANGED image
  /\ UNCHANGED <<revs, svcTaskDef, args, locals, result, deploys, start, registrations>>

(* ------------------------ credentials / client ------------------------- *)
\* keyword arguments of boto3.client are evaluated left to right
SecretNames == <<"access_key", "secret_key", "session_token">>

Plaintext(i, k) ==
  Call("plaintext", [secret |-> SecretNames[i]], k,
       IF k THEN [value |-> SecretValue[SecretNames[i]]] ELSE [error |-> "SecretError"])

\* ecs_client = boto3.client('ecs', aws_access_key_id=await access_key.plaintext(), ...)
\* n secrets resolve; then either the next one fails or, with all three
\* resolved, the client is constructed (ok) or its construction fails
CreateClient(p) ==
  /\ pc[p] = "creds"
  /\ \E n \in 0..Len(SecretNames), ok \in BOOLEAN :
       /\ n < Len(SecretNames) => ~ok
       /\ LET resolved == [i \in 1..n |-> Plaintext(i, TRUE)]
              last == IF n < Len(SecretNames)
                      THEN Plaintext(n + 1, FALSE)
                      ELSE Call("boto3.client", [region_name |-> args[p].region], ok,
                                IF ok THEN [client |-> "ecs"] ELSE [error |-> "BotoCoreError"])
          IN calls' = [calls EXCEPT ![p] = @ \o resolved \o <<last>>]
       /\ IF ok
          THEN /\ pc' = [pc EXCEPT ![p] = "list"]
               /\ UNCHANGED <<raised, log>>
          ELSE Propagate(p, IF n < Len(SecretNames)
                            THEN Error("SecretError", SecretNames[n + 1])
                            ELSE Error("BotoCoreError", "boto3.client"))
  /\ UNCHANGED <<revs, svcTaskDef, args, image, locals, result, deploys, start, registrations>>

(* ----------------------- the ECS API, as called ------------------------ *)
\* errors an ECS call may come back with
ClientErrors == {"ClientException", "AccessDeniedException"}

Min(a, b) == IF a < b THEN a ELSE b

\* list_task_definitions(familyPrefix, sort, maxResults)['taskDefinitionArns']:
\* the ARNs of the family, ordered by revision, at most maxResults of them
ListTaskDefinitions(familyPrefix, sort, maxResults) ==
  LET n == IF familyPrefix \in Families THEN Len(revs[familyPrefix]) ELSE 0
      all == [i \in 1..n |->
                Arn(familyPrefix, IF sort = "DESC" THEN n + 1 - i ELSE i)]
  IN SubSeq(all, 1, Min(n, maxResults))

\* a describe that answers with the newest revision of the family of the ARN
DescribeTaskDefinitionNewest(arn) == revs[arn.family][Len(revs[arn.family])]

\* describe_task_definition(taskDefinition=arn)['taskDefinition']
DescribeTaskDefinition(arn) == revs[arn.family][arn.revision]

\* a slip in the keyword arguments: memory is read from the cpu key
RegisterRequestMemoryFromCpu(td, cds) ==
  [family |-> td["family"],
   containerDefinitions |-> cds,
   volumes |-> Get(td, "volumes", <<>>),
   taskRoleArn |-> Get(td, "taskRoleArn", None),
   executionRoleArn |-> Get(td, "executionRoleArn", None),
   networkMode |-> Get(td, "networkMode", None),
   requiresCompatibilities |-> Get(td, "requiresCompatibilities", <<>>),
   cpu |-> Get(td, "cpu", None),
   memory |-> Get(td, "cpu", None)]

\* keyword arguments that name one fixed family
RegisterRequestFixedFamily(td, cds) ==
  [family |-> "web-task",
   containerDefinitions |-> cds,
   volumes |-> Get(td, "volumes", <<>>),
   taskRoleArn |-> Get(td, "taskRoleArn", None),
   executionRoleArn |-> Get(td, "executionRoleArn", None),
   networkMode |-> Get(td, "networkMode", None),
   requiresCompatibilities |-> Get(td, "requiresCompatibilities", <<>>),
   cpu |-> Get(td, "cpu", None),
   memory |-> Get(td, "memory", None)]

\* keyword arguments in which an absent cpu is submitted as "0"
RegisterRequestCpuZero(td, cds) ==
  [family |-> td["family"],
   containerDefinitions |-> cds,
   volumes |-> Get(td, "volumes", <<>>),
   taskRoleArn |-> Get(td, "taskRoleArn", None),
   executionRoleArn |-> Get(td, "executionRoleArn", None),
   networkMode |-> Get(td, "networkMode", None),
   requiresCompatibilities |-> Get(td, "requiresCompatibilities", <<>>),
   cpu |-> Get(td, "cpu", "0"),
   memory |-> Get(td, "memory", None)]

\* the keyword arguments of register_task_definition
RegisterRequest(td, cds) ==
  [family |-> td["family"],
   containerDefinitions |-> cds,
   volumes |-> Get(td, "volumes", <<>>),
   taskRoleArn |-> Get(td, "taskRoleArn", None),
   executionRoleArn |-> Get(td, "executionRoleArn", None),
   networkMode |-> Get(td, "networkMode", None),
   requiresCompatibilities |-> Get(td, "requiresCompatibilities", <<>>),
   cpu |-> Get(td, "cpu", None),
   memory |-> Get(td, "memory", None)]

ScalarParams == {"taskRoleArn", "executionRoleArn", "networkMode", "cpu", "memory"}

\* the body ECS keeps for a registration: the parameters that were set
RegisteredBody(req) ==
  [k \in { j \in DOMAIN req : ~(j \in ScalarParams /\ req[j] = None) } |-> req[k]]

\* the loop body without its `if 'image' in ctr` guard
SetImageUnguarded(ctr, img) ==
  [k \in DOMAIN ctr \cup {"image"} |-> IF k = "image" THEN img ELSE ctr[k]]

\* the loop body without its assignment
SetImageSkipped(ctr, img) == ctr

\* for ctr in containerDefinitions: if 'image' in ctr: ctr['image'] = image
SetImage(ctr, img) ==
  IF "image" \in DOMAIN ctr THEN [ctr EXCEPT !["image"] = img] ELSE ctr

UpdateImages(cds, img) == [i \in DOMAIN cds |-> SetImage(cds[i], img)]

(* --------------------------- deploy, the try --------------------------- *)
\* the emptiness test left out
NoTaskDefinitionsUnchecked(arns) == FALSE

\* if not response['taskDefinitionArns']
NoTaskDefinitions(arns) == Len(arns) = 0

\* response = ecs_client.list_task_definitions(...); the empty check;
\* latest_task_definition_arn = response['taskDefinitionArns'][0]; print
List(p) ==
  /\ pc[p] = "list"
  /\ LET req == [familyPrefix |-> args[p].task_definition_family,
                 sort |-> "DESC", maxResults |-> 1]
     IN \/ \E e \in ClientErrors :
             /\ calls' = [calls EXCEPT ![p] = Append(@, Call("list_task_definitions", req, FALSE,
                                       [error |-> Error(e, "list_task_definitions")]))]
             /\ Except(p, Error(e, "list_task_definitions"))
             /\ UNCHANGED latest_task_definition_arn
        \/ LET arns == ListTaskDefinitions(req.familyPrefix, req.sort, req.maxResults) IN
             /\ calls' = [calls EXCEPT ![p] = Append(@, Call("list_task_definitions", req, TRUE,
                                     [taskDefinitionArns |-> arns]))]
             /\ IF NoTaskDefinitions(arns)
                THEN /\ Except(p, Error("ValueError", args[p].task_definition_family))
                     /\ UNCHANGED latest_task_definition_arn
                ELSE IF Len(arns) = 0   \* [0] of an empty list
                THEN /\ Except(p, Error("IndexError", "list index out of range"))
                     /\ UNCHANGED latest_task_definition_arn
                ELSE /\ latest_task_definition_arn' =
                          [latest_task_definition_arn EXCEPT ![p] = arns[1]]
                     /\ log' = [log EXCEPT ![p] =
                          Append(@, [msg |-> "Latest task definition ARN", arn |-> arns[1]])]
                     /\ pc' = [pc EXCEPT ![p] = "describe"]
                     /\ UNCHANGED raised
  /\ UNCHANGED <<revs, svcTaskDef, args, image, task_definition,
                 new_task_definition_arn, result, deploys, start, registrations>>

\* task_definition = ecs_client.describe_task_definition(...)['taskDefinition']
Describe(p) ==
  /\ pc[p] = "describe"
  /\ LET req == [taskDefinition |-> latest_task_definition_arn[p]]
     IN \/ \E e \in ClientErrors :
             /\ calls' = [calls EXCEPT ![p] = Append(@, Call("describe_task_definition", req, FALSE,
                                       [error |-> Error(e, "describe_task_definition")]))]
             /\ Except(p, Error(e, "describe_task_definition"))
             /\ UNCHANGED task_definition
        \/ /\ calls' = [calls EXCEPT ![p] = Append(@, Call("describe_task_definition", req, TRUE,
                                   [taskDefinition |-> DescribeTaskDefinition(req.taskDefinition)]))]
           /\ task_definition' = [task_definition EXCEPT ![p] =
                                    DescribeTaskDefinition(req.taskDefinition)]
           /\ pc' = [pc EXCEPT ![p] = "derive"]
           /\ UNCHANGED <<raised, log>>
  /\ UNCHANGED <<revs, svcTaskDef, args, image, latest_task_definition_arn,
                 new_task_definition_arn, result, deploys, start, registrations>>

\* the for loop editing the fetched revision where ECS stores it
DeriveInStore(p) ==
  /\ pc[p] = "derive"
  /\ task_definition' = [task_definition EXCEPT ![p]["containerDefinitions"] =
                           UpdateImages(@, image[p])]
  /\ revs' = [revs EXCEPT ![latest_task_definition_arn[p].family]
                              [latest_task_definition_arn[p].revision]
                              ["containerDefinitions"] = UpdateImages(@, image[p])]
  /\ pc' = [pc EXCEPT ![p] = "register"]
  /\ UNCHANGED <<svcTaskDef, args, image, latest_task_definition_arn,
                 new_task_definition_arn, result, raised, log, calls,
                 deploys, start, registrations>>

\* the for loop over task_definition['containerDefinitions'] (local dict only)
Derive(p) ==
  /\ pc[p] = "derive"
  /\ task_definition' = [task_definition EXCEPT ![p]["containerDefinitions"] =
                           UpdateImages(@, image[p])]
  /\ pc' = [pc EXCEPT ![p] = "register"]
  /\ UNCHANGED <<revs, svcTaskDef, args, image, latest_task_definition_arn,
                 new_task_definition_arn, result, raised, log, calls,
                 deploys, start, registrations>>

\* a registration that also makes the service run the new revision
RegisterAndSwap(p) ==
  /\ pc[p] = "register"
  /\ LET req == RegisterRequest(task_definition[p],
                                task_definition[p]["containerDefinitions"])
     IN \/ \E e \in ClientErrors :
             /\ calls' = [calls EXCEPT ![p] = Append(@, Call("register_task_definition", req, FALSE,
                                       [error |-> Error(e, "register_task_definition")]))]
             /\ Except(p, Error(e, "register_task_definition"))
             /\ UNCHANGED <<revs, svcTaskDef, new_task_definition_arn, registrations>>
        \/ LET arn == Arn(req.family, Len(revs[req.family]) + 1) IN
             /\ calls' = [calls EXCEPT ![p] = Append(@, Call("register_task_definition", req, TRUE,
                                     [taskDefinitionArn |-> arn]))]
             /\ revs' = [revs EXCEPT ![req.family] = Append(@, RegisteredBody(req))]
             /\ svcTaskDef' = [svcTaskDef EXCEPT ![args[p].service] = arn]
             /\ registrations' = Append(registrations,
                  [taskDefinition |-> arn, image |-> image[p], updated |-> FALSE])
             /\ new_task_definition_arn' = [new_task_definition_arn EXCEPT ![p] = arn]
             /\ log' = [log EXCEPT ![p] =
                  Append(@, [msg |-> "New task definition registered", arn |-> arn])]
             /\ pc' = [pc EXCEPT ![p] = "update"]
             /\ UNCHANGED raised
  /\ UNCHANGED <<args, image, latest_task_definition_arn,
                 task_definition, result, deploys, start>>

\* new_task_definition = ecs_client.register_task_definition(...);
\* new_task_definition_arn = ...['taskDefinitionArn']; print
Register(p) ==
  /\ pc[p] = "register"
  /\ LET req == RegisterRequest(task_definition[p],
                                task_definition[p]["containerDefinitions"])
     IN \/ \E e \in ClientErrors :
             /\ calls' = [calls EXCEPT ![p] = Append(@, Call("register_task_definition", req, FALSE,
                                       [error |-> Error(e, "register_task_definition")]))]
             /\ Except(p, Error(e, "register_task_definition"))
             /\ UNCHANGED <<revs, new_task_definition_arn, registrations>>
        \/ LET arn == Arn(req.family, Len(revs[req.family]) + 1) IN
             /\ calls' = [calls EXCEPT ![p] = Append(@, Call("register_task_definition", req, TRUE,
                                     [taskDefinitionArn |-> arn]))]
             /\ revs' = [revs EXCEPT ![req.family] = Append(@, RegisteredBody(req))]
             /\ registrations' = Append(registrations,
                  [taskDefinition |-> arn, image |-> image[p], updated |-> FALSE])
             /\ new_task_definition_arn' = [new_task_definition_arn EXCEPT ![p] = arn]
             /\ log' = [log EXCEPT ![p] =
                  Append(@, [msg |-> "New task definition registered", arn |-> arn])]
             /\ pc' = [pc EXCEPT ![p] = "update"]
             /\ UNCHANGED raised
  /\ UNCHANGED <<svcTaskDef, args, image, latest_task_definition_arn,
                 task_definition, result, deploys, start>>

\* the confirmation naming the revision that was fetched, not the new one
ConfirmationOfLatest(p) ==
  [service |-> args[p].service, taskDefinition |-> latest_task_definition_arn[p]]

\* f"Service {service} updated to use task definition {new_task_definition_arn}"
Confirmation(p) ==
  [service |-> args[p].service, taskDefinition |-> new_task_definition_arn[p]]

\* update_service given the revision that was fetched
UpdateServiceRequestLatest(p) ==
  [cluster |-> args[p].cluster, service |-> args[p].service,
   taskDefinition |-> latest_task_definition_arn[p]]

\* the keyword arguments of update_service
UpdateServiceRequest(p) ==
  [cluster |-> args[p].cluster, service |-> args[p].service,
   taskDefinition |-> new_task_definition_arn[p]]

\* update_service whose failure deregisters the revision just registered
UpdateServiceWithRollback(p) ==
  /\ pc[p] = "update"
  /\ LET req == UpdateServiceRequest(p)
     IN \/ \E e \in ClientErrors :
             /\ calls' = [calls EXCEPT ![p] = Append(@, Call("update_service", req, FALSE,
                                       [error |-> Error(e, "update_service")]))]
             /\ Except(p, Error(e, "update_service"))
             /\ revs' = [revs EXCEPT ![req.taskDefinition.family] =
                           SubSeq(@, 1, req.taskDefinition.revision - 1)]
             /\ UNCHANGED <<svcTaskDef, result, registrations>>
        \/ /\ calls' = [calls EXCEPT ![p] = Append(@, Call("update_service", req, TRUE, [service |-> req.service]))]
           /\ svcTaskDef' = [svcTaskDef EXCEPT ![req.service] = req.taskDefinition]
           /\ registrations' =
                [i \in DOMAIN registrations |->
                   IF registrations[i].taskDefinition = req.taskDefinition
                   THEN [registrations[i] EXCEPT !.updated = TRUE]
                   ELSE registrations[i]]
           /\ result' = [result EXCEPT ![p] = Confirmation(p)]
           /\ pc' = [pc EXCEPT ![p] = "done"]
           /\ UNCHANGED <<raised, log, revs>>
  /\ UNCHANGED <<args, image, locals, deploys, start>>

\* ecs_client.update_service(...); return f"Service {service} updated ..."
UpdateService(p) ==
  /\ pc[p] = "update"
  /\ LET req == UpdateServiceRequest(p)
     IN \/ \E e \in ClientErrors :
             /\ calls' = [calls EXCEPT ![p] = Append(@, Call("update_service", req, FALSE,
                                       [error |-> Error(e, "update_service")]))]
             /\ Except(p, Error(e, "update_service"))
             /\ UNCHANGED <<svcTaskDef, result, registrations>>
        \/ /\ calls' = [calls EXCEPT ![p] = Append(@, Call("update_service", req, TRUE, [service |-> req.service]))]
           /\ svcTaskDef' = [svcTaskDef EXCEPT ![req.service] = req.taskDefinition]
           /\ registrations' =
                [i \in DOMAIN registrations |->
                   IF registrations[i].taskDefinition = req.taskDefinition
                   THEN [registrations[i] EXCEPT !.updated = TRUE]
                   ELSE registrations[i]]
           /\ result' = [result EXCEPT ![p] = Confirmation(p)]
           /\ pc' = [pc EXCEPT ![p] = "done"]
           /\ UNCHANGED <<raised, log>>
  /\ UNCHANGED <<revs, args, image, locals, deploys, start>>

\* the steps of one caller
Caller(p) ==
    \/ Invoke(p)
    \/ Push(p)
    \/ CreateClient(p)
    \/ List(p)
    \/ Describe(p)
    \/ Derive(p)
    \/ Register(p)
    \/ UpdateService(p)

\* one caller: deploy is invoked again and again, each call after the last
Next == Caller(1)

\* run(dir) is called by caller p and its pipeline is evaluated: a fresh frame
\* holding the steps that were executed
RunLocal(p) ==
  /\ pc[p] = "idle" \/ Finished(p)
  /\ deploys < MaxDeploys
  /\ deploys' = deploys + 1
  /\ start' = [start EXCEPT ![p] = [revs |-> revs, svcTaskDef |-> svcTaskDef,
                                    id |-> deploys + 1,
                                    running |-> { q \in Procs \ {p} : Running(q) }]]
  /\ args' = [args EXCEPT ![p] = NoArgs]
  /\ image' = [image EXCEPT ![p] = None]
  /\ latest_task_definition_arn' = [latest_task_definition_arn EXCEPT ![p] = NoArn]
  /\ task_definition' = [task_definition EXCEPT ![p] = NoBody]
  /\ new_task_definition_arn' = [new_task_definition_arn EXCEPT ![p] = NoArn]
  /\ result' = [result EXCEPT ![p] = NoResult]
  /\ log' = [log EXCEPT ![p] = <<>>]
  /\ LET steps == run(".") IN
     \E n \in 0..Len(steps) :
       /\ calls' = [calls EXCEPT ![p] = Executed(steps, n)]
       /\ IF n = Len(steps)
          THEN /\ raised' = [raised EXCEPT ![p] = NoError]
               /\ pc' = [pc EXCEPT ![p] = "served"]
          ELSE /\ raised' = [raised EXCEPT ![p] = Error("ExecError", steps[n + 1].op)]
               /\ pc' = [pc EXCEPT ![p] = "raised"]
  /\ UNCHANGED <<revs, svcTaskDef, registrations>>

\* the pipelines alone: push, as the deploy of one caller starts it, and the
\* run of another caller
NextPipeline ==
  \/ Invoke(1)
  \/ Push(1)
  \/ RunLocal(2)

SpecPipeline == Init /\ [][NextPipeline]_vars

\* overlapping calls of deploy for the web-task family by several callers; of
\* the failures only update_service answered with ClientException is followed
InitRace ==
  /\ Init
  /\ revs["batch-task"] = <<>>
  /\ revs["web-task"][1] =
       MakeBody("web-task", <<[name |-> "app", image |-> "old:1.0", essential |-> "true"]>>,
                DOMAIN OptionalFields)

Followed(p) ==
  /\ args'[p].task_definition_family = "web-task"
  /\ args'[p].image = None
  /\ pc'[p] = "raised" => pc[p] = "update" /\ raised'[p].type = "ClientException"

NextRace ==
  \E p \in Procs :
    \/ Invoke(p) /\ Followed(p)
    \/ Push(p) /\ Followed(p)
    \/ CreateClient(p) /\ Followed(p)
    \/ List(p) /\ Followed(p)
    \/ Describe(p) /\ Followed(p)
    \/ Derive(p)
    \/ Register(p) /\ Followed(p)
    \/ UpdateService(p) /\ Followed(p)

SpecRace == InitRace /\ [][NextRace]_vars

Spec == Init /\ [][Next]_vars

TypeOK ==
  /\ \A f \in Families : \A i \in DOMAIN revs[f] : revs[f][i]["family"] = f
  /\ \A s \in Services : svcTaskDef[s] \in AllArns

(* ======================= properties of deploy ========================== *)
EcsOps == {"list_task_definitions", "describe_task_definition",
           "register_task_definition", "update_service"}

\* positions in the invocation's calls of operation o / of the operations in os
CallsOf(p, o) == { i \in DOMAIN calls[p] : calls[p][i].op = o }
CallsIn(p, os) == { i \in DOMAIN calls[p] : calls[p][i].op \in os }

TheCall(p, o) == calls[p][CHOOSE i \in CallsOf(p, o) : TRUE]

\* the image reference push returned, the body describe returned
PushedRef(p) == TheCall(p, "publish").ret.ref
Fetched(p) == TheCall(p, "describe_task_definition").ret.taskDefinition

Body(arn) == revs[arn.family][arn.revision]

OptionalKeys == DOMAIN OptionalFields
ListKeys == {"volumes", "requiresCompatibilities"}
\* an absent list counts as empty, an absent scalar as unset
Default(k) == IF k \in ListKeys THEN <<>> ELSE None

HasImage(ctr) == "image" \in DOMAIN ctr

Succeeded(p) == pc[p] = "done"

\* C1: a deploy that succeeded registered exactly one new revision (the
\* family has one revision more than when deploy was called, nothing else
\* changed), and that revision equals the fetched latest revision field by
\* field (an absent optional field counting as its default: empty list /
\* unset), except that every container that had an image now carries the
\* reference push returned.
C1_NewRevisionCopiesLatest ==
  \A p \in Procs :
    Succeeded(p) =>
      LET F == Fetched(p)
          a == new_task_definition_arn[p]
          N == Body(a)
          Fc == F["containerDefinitions"]
          Nc == N["containerDefinitions"]
      IN /\ Cardinality(CallsOf(p, "register_task_definition")) = 1
         /\ revs = [start[p].revs EXCEPT ![a.family] = Append(@, N)]
         /\ a.family = F["family"] /\ N["family"] = F["family"]
         /\ DOMAIN N \subseteq {"family", "containerDefinitions"} \cup OptionalKeys
         /\ \A k \in OptionalKeys : Get(N, k, Default(k)) = Get(F, k, Default(k))
         /\ Len(Nc) = Len(Fc)
         /\ \A i \in DOMAIN Fc :
              Nc[i] = IF HasImage(Fc[i])
                      THEN [Fc[i] EXCEPT !["image"] = PushedRef(p)]
                      ELSE Fc[i]

\* a deploy succeeded on a revision with all optional fields, a container
\* whose image differs from the pushed reference, and more than one container
C1_Witness ==
  \E p \in Procs :
    /\ Succeeded(p)
    /\ DOMAIN Fetched(p) = {"family", "containerDefinitions"} \cup OptionalKeys
    /\ Len(Fetched(p)["containerDefinitions"]) > 1
    /\ \E i \in DOMAIN Fetched(p)["containerDefinitions"] :
         /\ HasImage(Fetched(p)["containerDefinitions"][i])
         /\ Fetched(p)["containerDefinitions"][i]["image"] # PushedRef(p)

\* the derivation has run (the for loop is behind the program counter)
Derived(p) == pc[p] \in {"register", "update", "done"}

\* C2: a container of the fetched revision that has no image field has none
\* after the derivation and is otherwise identical, in the local dict, in the
\* registration request and in the registered revision.
C2_NoImageIntroduced ==
  \A p \in Procs :
    Derived(p) =>
      \A i \in DOMAIN Fetched(p)["containerDefinitions"] :
        LET c == Fetched(p)["containerDefinitions"][i] IN
        ~HasImage(c) =>
          /\ ~HasImage(task_definition[p]["containerDefinitions"][i])
          /\ task_definition[p]["containerDefinitions"][i] = c
          /\ \A j \in CallsOf(p, "register_task_definition") :
               calls[p][j].arg.containerDefinitions[i] = c
          /\ new_task_definition_arn[p] # NoArn =>
               Body(new_task_definition_arn[p])["containerDefinitions"][i] = c

\* a revision with an image-less container next to one with an image was registered
C2_Witness ==
  \E p \in Procs :
    /\ Succeeded(p)
    /\ \E i, j \in DOMAIN Fetched(p)["containerDefinitions"] :
         /\ ~HasImage(Fetched(p)["containerDefinitions"][i])
         /\ HasImage(Fetched(p)["containerDefinitions"][j])

\* ListTaskDefinitions answered with an empty list in this invocation
ListedNothing(p) ==
  \E i \in CallsOf(p, "list_task_definitions") :
    calls[p][i].ok /\ calls[p][i].ret.taskDefinitionArns = <<>>

\* C3: when ListTaskDefinitions returns no ARN, deploy has ended with the
\* "No task definitions found" ValueError for the family, it has called
\* neither Describe nor Register nor UpdateService, and the revisions and the
\* service are what they were when deploy was called.
C3_FamilyNotFound ==
  \A p \in Procs :
    ListedNothing(p) =>
      /\ pc[p] = "raised"
      /\ raised[p] = Error("ValueError", args[p].task_definition_family)
      /\ CallsIn(p, {"describe_task_definition", "register_task_definition",
                     "update_service"}) = {}
      /\ revs = start[p].revs
      /\ svcTaskDef = start[p].svcTaskDef

\* a deploy for a family without revisions ended
C3_Witness ==
  \E p \in Procs :
    /\ ListedNothing(p)
    /\ revs[args[p].task_definition_family] = <<>>
    /\ pc[p] = "raised"

\* the calls of the invocation that failed, among the operations in os
FailedIn(p, os) == { i \in CallsIn(p, os) : ~calls[p][i].ok }

Logged(p, e) ==
  \E i \in DOMAIN log[p] :
    log[p][i] = [msg |-> "Error updating ECS service", error |-> e]

\* C4: when RegisterTaskDefinition fails, deploy has ended with exactly the
\* error the call came back with, UpdateService was not called in this
\* invocation, and the service runs what it ran when deploy was called.
C4_RegisterFailure ==
  \A p \in Procs :
    \A i \in FailedIn(p, {"register_task_definition"}) :
      /\ pc[p] = "raised"
      /\ raised[p] = calls[p][i].ret.error
      /\ CallsOf(p, "update_service") = {}
      /\ svcTaskDef = start[p].svcTaskDef

\* a registration was rejected
C4_Witness ==
  \E p \in Procs :
    /\ FailedIn(p, {"register_task_definition"}) # {}
    /\ raised[p].type \in ClientErrors
    /\ raised[p].detail = "register_task_definition"

PushOps == { push(".")[i].op : i \in DOMAIN push(".") }

\* C5: when a step of push fails, deploy has ended with that error and has
\* made no call to the ECS API; revisions and service are as at the call.
C5_PushFailure ==
  \A p \in Procs :
    \A i \in FailedIn(p, PushOps) :
      /\ pc[p] = "raised"
      /\ raised[p] = Error("ExecError", calls[p][i].op)
      /\ CallsIn(p, EcsOps) = {}
      /\ revs = start[p].revs
      /\ svcTaskDef = start[p].svcTaskDef

\* the dependency installation (the last build step) failed
C5_Witness ==
  \E p \in Procs :
    /\ pc[p] = "raised"
    /\ \E i \in FailedIn(p, PushOps) : i = Len(build("."))

\* C6: when the registration succeeded and UpdateService fails, deploy has
\* ended with that error, the new revision is in the family (the revisions
\* are those at the call plus the new one), the service runs what it ran at
\* the call, and no ECS operation was called twice.
C6_UpdateFailure ==
  \A p \in Procs :
    \A i \in FailedIn(p, {"update_service"}) :
      LET a == new_task_definition_arn[p] IN
      /\ pc[p] = "raised"
      /\ raised[p] = calls[p][i].ret.error
      /\ a \in AllArns
      /\ a.revision = Len(start[p].revs[a.family]) + 1
      /\ revs = [start[p].revs EXCEPT ![a.family] = Append(@, Body(a))]
      /\ Body(a) = RegisteredBody(TheCall(p, "register_task_definition").arg)
      /\ svcTaskDef = start[p].svcTaskDef
      /\ \A o \in EcsOps : Cardinality(CallsOf(p, o)) <= 1

\* the swap failed after a registration
C6_Witness ==
  \E p \in Procs :
    /\ FailedIn(p, {"update_service"}) # {}
    /\ \E i \in CallsOf(p, "register_task_definition") : calls[p][i].ok
    /\ pc[p] = "raised"

\* the invocation met an error: a call failed or the family had no revision
MetError(p) == FailedIn(p, PushOps \cup {"plaintext", "boto3.client"} \cup EcsOps) # {}
               \/ ListedNothing(p)

\* C7 as stated: every error of every step, push and credential resolution
\* included, is logged and then raised to the caller.
C7_EveryErrorLogged ==
  \A p \in Procs :
    /\ MetError(p) => pc[p] = "raised"
    /\ pc[p] = "raised" => raised[p] # NoError /\ Logged(p, raised[p])

\* C7 amended: no error is swallowed (an invocation that met an error has
\* ended raising it); an error of the try block (list, the empty check,
\* describe, register, update) is logged, once, before it is raised; an error
\* of push or of the credential / client step is raised without being logged.
C7_ErrorsRaisedAndTryErrorsLogged ==
  \A p \in Procs :
    /\ MetError(p) => pc[p] = "raised"
    /\ pc[p] = "raised" =>
         /\ raised[p] # NoError
         /\ MetError(p)
         /\ \A i \in FailedIn(p, EcsOps) : raised[p] = calls[p][i].ret.error
         /\ Logged(p, raised[p]) <=> (CallsIn(p, EcsOps) # {})
         /\ Cardinality({ i \in DOMAIN log[p] : "error" \in DOMAIN log[p][i] })
              = IF CallsIn(p, EcsOps) # {} THEN 1 ELSE 0

\* a describe error was logged and raised
C7_Witness ==
  \E p \in Procs :
    /\ pc[p] = "raised"
    /\ FailedIn(p, {"describe_task_definition"}) # {}
    /\ Logged(p, raised[p])

\* C8: when a secret does not resolve or the client cannot be built, deploy
\* has ended with that error without any call to the ECS API; revisions and
\* service are as at the call.
C8_CredentialFailure ==
  \A p \in Procs :
    \A i \in FailedIn(p, {"plaintext", "boto3.client"}) :
      /\ pc[p] = "raised"
      /\ raised[p].type = calls[p][i].ret.error
      /\ CallsIn(p, EcsOps) = {}
      /\ revs = start[p].revs
      /\ svcTaskDef = start[p].svcTaskDef

\* the session token did not resolve, after push had published
C8_Witness ==
  \E p \in Procs :
    /\ pc[p] = "raised"
    /\ \E i \in FailedIn(p, {"plaintext"}) : calls[p][i].arg.secret = "session_token"
    /\ \E i \in CallsOf(p, "publish") : calls[p][i].ok

\* the containers with an image of the revision at arn all carry img
ImagesAre(arn, img) ==
  \A i \in DOMAIN Body(arn)["containerDefinitions"] :
    LET c == Body(arn)["containerDefinitions"][i] IN
    HasImage(c) => c["image"] = img

\* C9: two deploys, one after the other, whose push returned the same
\* reference and which both updated the service, registered two different
\* revisions, and in the revision each UpdateService was given every
\* container that has an image carries that reference.
C9_TwiceSameImage ==
  \A i, j \in DOMAIN registrations :
    LET r == registrations[i]
        q == registrations[j]
    IN (i < j /\ r.updated /\ q.updated /\ r.image = q.image) =>
         /\ r.taskDefinition # q.taskDefinition
         /\ r.taskDefinition \in AllArns /\ q.taskDefinition \in AllArns
         /\ ImagesAre(r.taskDefinition, r.image)
         /\ ImagesAre(q.taskDefinition, r.image)

\* two deploys of the same family succeeded with the same pushed reference
C9_Witness ==
  \E i, j \in DOMAIN registrations :
    /\ i < j
    /\ registrations[i].updated /\ registrations[j].updated
    /\ registrations[i].image = registrations[j].image
    /\ registrations[i].taskDefinition.family = registrations[j].taskDefinition.family
    /\ \E p \in Procs : Succeeded(p) /\ new_task_definition_arn[p] = registrations[j].taskDefinition

\* C10: deploy has returned its confirmation exactly when it is done; then
\* the last call of the invocation is an UpdateService that succeeded, and
\* the ARN in the confirmation is the one RegisterTaskDefinition returned in
\* this invocation and the one UpdateService was given; the service named is
\* the one UpdateService was given.
C10_ConfirmationAfterSwap ==
  \A p \in Procs :
    /\ result[p] # NoResult <=> Succeeded(p)
    /\ result[p] # NoResult =>
         LET u == calls[p][Len(calls[p])] IN
         /\ u.op = "update_service" /\ u.ok
         /\ CallsOf(p, "update_service") = {Len(calls[p])}
         /\ \E i \in CallsOf(p, "register_task_definition") :
              /\ calls[p][i].ok
              /\ calls[p][i].ret.taskDefinitionArn = result[p].taskDefinition
         /\ u.arg.taskDefinition = result[p].taskDefinition
         /\ u.arg.service = result[p].service
         /\ result[p].service = args[p].service
         /\ result[p].taskDefinition # latest_task_definition_arn[p]

\* a deploy returned a confirmation for a revision the service now runs
C10_Witness ==
  \E p \in Procs :
    /\ result[p] # NoResult
    /\ svcTaskDef[result[p].service] = result[p].taskDefinition

(* ------------------------------ C11 ------------------------------------ *)
\* C11: revisions are append-only. In every step of every invocation, whether
\* it goes on or fails, each family keeps every revision it had, with the same
\* number and the same body, and can only gain revisions at the end; this
\* includes the latest revision, whose fetched copy the loop edits.
C11_RevisionsAppendOnly ==
  [][\A f \in Families :
       /\ Len(revs'[f]) >= Len(revs[f])
       /\ SubSeq(revs'[f], 1, Len(revs[f])) = revs[f]]_vars

\* a deploy finished after its loop changed the fetched copy of the latest
\* revision: the copy differs from the revision, and the family grew
C11_Witness ==
  \E p \in Procs :
    /\ Succeeded(p)
    /\ task_definition[p]["containerDefinitions"] #
         Body(latest_task_definition_arn[p])["containerDefinitions"]
    /\ Fetched(p) = Body(latest_task_definition_arn[p])
    /\ Len(revs[args[p].task_definition_family]) >
         Len(start[p].revs[args[p].task_definition_family])

(* ------------------------------ C12 ------------------------------------ *)
\* C12: in every state each service runs exactly one revision, and that
\* revision exists; a step changes what a service runs only if it is the
\* update_service call of some invocation succeeding, and then only the
\* service named in that invocation changes, to the revision the invocation
\* registered. Push, list, describe, the loop, register and every error exit
\* (a failed update_service included) leave every service as it was.
C12_OnlyUpdateServiceSwaps ==
  /\ [](\A s \in Services : svcTaskDef[s] \in AllArns)
  /\ [][svcTaskDef' # svcTaskDef =>
         \E p \in Procs :
           /\ pc[p] = "update" /\ pc'[p] = "done"
           /\ svcTaskDef' = [svcTaskDef EXCEPT ![args[p].service] =
                                                  new_task_definition_arn[p]]]_vars

\* a deploy went through every step and its swap changed what the service
\* runs, while the revision the service ran before still exists
C12_Witness ==
  \E p \in Procs :
    /\ Succeeded(p)
    /\ svcTaskDef[args[p].service] = new_task_definition_arn[p]
    /\ start[p].svcTaskDef[args[p].service] # svcTaskDef[args[p].service]
    /\ start[p].svcTaskDef[args[p].service] \in AllArns

(* ------------------------------ C13 ------------------------------------ *)
\* C13: an optional top-level field missing from the fetched revision makes
\* neither the loop nor the building of the registration fail: once
\* describe_task_definition has answered, an invocation that raised did so
\* from a register_task_definition or update_service call it issued, and the
\* invocation is not in error before it issues register_task_definition.
\* Every register_task_definition call submits each optional field with the
\* fetched value, or, where the fetched revision lacks it, an empty list for
\* volumes and requiresCompatibilities and None for the scalars.
C13_AbsentFieldsDefaulted ==
  \A p \in Procs :
    /\ \A i \in CallsOf(p, "register_task_definition") :
         \A k \in OptionalKeys :
           calls[p][i].arg[k] = IF k \in DOMAIN Fetched(p) THEN Fetched(p)[k]
                                ELSE IF k \in ListKeys THEN <<>> ELSE None
    /\ pc[p] \in {"derive", "register"} => raised[p] = NoError
    /\ (pc[p] = "raised" /\ \E i \in CallsOf(p, "describe_task_definition") : calls[p][i].ok) =>
         /\ CallsOf(p, "register_task_definition") # {}
         /\ FailedIn(p, {"register_task_definition", "update_service"}) # {}

\* a deploy succeeded from a revision that has none of the optional fields:
\* the registration carried two empty lists and five unset scalars
C13_Witness ==
  \E p \in Procs :
    /\ Succeeded(p)
    /\ DOMAIN Fetched(p) \cap OptionalKeys = {}
    /\ \A k \in ListKeys : TheCall(p, "register_task_definition").arg[k] = <<>>
    /\ \A k \in OptionalKeys \ ListKeys : TheCall(p, "register_task_definition").arg[k] = None

(* ------------------------------ C14 ------------------------------------ *)
\* the build steps in the order of the claim: base image, workdir, source
\* mount, runtime install, venv creation, dependency install
BuildOrder ==
  << <<"from_", "public.ecr.aws/docker/library/alpine:latest">>,
     <<"with_workdir", "/app">>,
     <<"with_mounted_directory", "/app">>,
     <<"with_exec", "apk">>,
     <<"with_exec", "python3">>,
     <<"with_exec", "/path/to/venv/bin/pip3">> >>

Extensions == {"with_entrypoint", "publish", "with_exposed_port", "as_service"}

\* C14: the steps a pipeline has applied are, in this order, the six build
\* steps, each applied only after the one before it succeeded; an entrypoint,
\* a publish, a port exposure or a service start is applied only after all
\* six build steps succeeded, publish directly after the entrypoint and the
\* service start directly after the port exposure; a pipeline in which a
\* build step failed applied no publish and returned no image reference.
C14_BuildThenExtend ==
  \A p \in Procs :
    LET cs == calls[p] IN
    /\ \A i \in DOMAIN cs :
         /\ i > 1 => cs[i - 1].ok
         /\ i <= Len(BuildOrder) =>
              <<cs[i].op, cs[i].arg.args[1]>> = BuildOrder[i]
         /\ cs[i].op \in Extensions =>
              /\ i > Len(BuildOrder)
              /\ \A j \in 1..Len(BuildOrder) : cs[j].ok
         /\ cs[i].op = "publish" =>
              i = Len(BuildOrder) + 2 /\ cs[i - 1].op = "with_entrypoint"
         /\ cs[i].op = "as_service" =>
              i = Len(BuildOrder) + 2 /\ cs[i - 1].op = "with_exposed_port"
    /\ (\E j \in DOMAIN cs : j <= Len(BuildOrder) /\ ~cs[j].ok) =>
         /\ CallsOf(p, "publish") = {}
         /\ image[p] \notin ImageRefs

\* one caller published an image and another started the service, each after
\* the six build steps
C14_Witness ==
  \E p, q \in Procs :
    /\ pc[p] = "creds" /\ CallsOf(p, "publish") = {Len(BuildOrder) + 2}
    /\ calls[p][Len(BuildOrder) + 2].ok /\ image[p] \in ImageRefs
    /\ pc[q] = "served" /\ CallsOf(q, "as_service") = {Len(BuildOrder) + 2}
    /\ calls[q][Len(BuildOrder) + 2].ok

(* ------------------------------ C15 ------------------------------------ *)
\* the place of a remote operation in the order of C15
Stage(o) ==
  IF o \in PushOps THEN 1
  ELSE IF o \in {"plaintext", "boto3.client"} THEN 2
  ELSE IF o = "list_task_definitions" THEN 3
  ELSE IF o = "describe_task_definition" THEN 4
  ELSE IF o = "register_task_definition" THEN 5
  ELSE 6

\* the call of an invocation that completes a stage
Completes(o) ==
  o \in {"publish", "boto3.client"} \cup EcsOps

\* C15: the remote calls of one invocation come in the order push, credential
\* resolution (with the client), ListTaskDefinitions, DescribeTaskDefinition,
\* RegisterTaskDefinition, UpdateService: the first call is a step of push,
\* no call is of an earlier operation than the call before it, and a call is
\* of a later operation only if that is the next one in the order and the
\* call before it completed its operation. Every call but the last one
\* succeeded (nothing is called after a failure), and publish, each
\* credential, the client construction and each ECS operation are called at
\* most once.
C15_FixedOrderNoRetry ==
  \A p \in Procs :
    LET cs == calls[p]
        st == [i \in DOMAIN cs |-> Stage(cs[i].op)]
    IN
    /\ cs # <<>> => st[1] = 1
    /\ \A i \in 2..Len(cs) :
         /\ cs[i - 1].ok
         /\ st[i - 1] <= st[i]
         /\ st[i - 1] < st[i] => st[i] = st[i - 1] + 1 /\ Completes(cs[i - 1].op)
         /\ cs[i].op = "plaintext" =>
              IF cs[i - 1].op = "plaintext"
              THEN \E k \in 2..Len(SecretNames) :
                     /\ cs[i - 1].arg.secret = SecretNames[k - 1]
                     /\ cs[i].arg.secret = SecretNames[k]
              ELSE cs[i].arg.secret = SecretNames[1]
         /\ Completes(cs[i - 1].op) => st[i - 1] < st[i]

\* one deploy went through all six operations, another one stopped at a
\* RegisterTaskDefinition that failed and called nothing after it
C15_Witness ==
  /\ deploys = 2
  /\ Len(registrations) = 1 /\ registrations[1].updated
  /\ \E p \in Procs :
       /\ pc[p] = "raised"
       /\ calls[p][Len(calls[p])].op = "register_task_definition"
       /\ ~calls[p][Len(calls[p])].ok
       /\ { Stage(calls[p][i].op) : i \in DOMAIN calls[p] } = 1..5

(* ------------------------------ C16 ------------------------------------ *)
\* invocations p and q, of two callers, for the same family and service,
\* resolved the same latest revision and each registered a revision
Raced(p, q) ==
  /\ p # q
  /\ args[p].task_definition_family = args[q].task_definition_family
  /\ args[p].service = args[q].service
  /\ latest_task_definition_arn[p] # NoArn
  /\ latest_task_definition_arn[p] = latest_task_definition_arn[q]
  /\ new_task_definition_arn[p] # NoArn /\ new_task_definition_arn[q] # NoArn

\* the revision p registered is the revision base with p's image put in
RegisteredFrom(p, base) ==
  LET N == Body(new_task_definition_arn[p])
      Fc == base["containerDefinitions"]
      Nc == N["containerDefinitions"]
  IN /\ \A k \in OptionalKeys : Get(N, k, Default(k)) = Get(base, k, Default(k))
     /\ Len(Nc) = Len(Fc)
     /\ \A i \in DOMAIN Fc :
          Nc[i] = IF HasImage(Fc[i])
                  THEN [Fc[i] EXCEPT !["image"] = PushedRef(p)]
                  ELSE Fc[i]

\* C16: nothing coordinates two invocations for the same family and service.
\* Whenever two of them resolved the same latest revision and both
\* registered, neither saw the other: each fetched that same revision, though
\* it was no longer the latest for the one that registered second, each
\* registered a revision of its own, later than the base, and each new
\* revision is the base with the invocation's own image, not the other new
\* revision with it. (That this happens is the witness.)
C16_StaleBaseRace ==
  \A p, q \in Procs :
    Raced(p, q) =>
      LET base == Body(latest_task_definition_arn[p]) IN
      /\ Fetched(p) = base /\ Fetched(q) = base
      /\ new_task_definition_arn[p] # new_task_definition_arn[q]
      /\ new_task_definition_arn[p].revision > latest_task_definition_arn[p].revision
      /\ new_task_definition_arn[q].revision > latest_task_definition_arn[q].revision
      /\ RegisteredFrom(p, base) /\ RegisteredFrom(q, base)

\* two overlapping deploys, with different images, resolved the same latest
\* revision, both registered from it and both completed
C16_Witness ==
  \E p, q \in Procs :
    /\ Raced(p, q)
    /\ Succeeded(p) /\ Succeeded(q)
    /\ q \in start[p].running \/ p \in start[q].running
    /\ PushedRef(p) # PushedRef(q)
    /\ Body(new_task_definition_arn[p]) # Body(new_task_definition_arn[q])
    /\ latest_task_definition_arn[p].revision < Len(revs[args[p].task_definition_family]) - 1

(* ------------------------------ C17 ------------------------------------ *)
\* every invocation made so far has completed successfully
AllCompleted ==
  /\ deploys > 0
  /\ \A p \in Procs : pc[p] \in {"idle", "done"}
  /\ Len(registrations) = deploys
  /\ \A i \in DOMAIN registrations : registrations[i].updated

Highest(f) == Arn(f, Len(revs[f]))

\* C17 as stated: once all the invocations made, overlapping or not, have
\* completed successfully, the service of each runs the highest-numbered
\* revision of its family.
C17_ServiceAtHighest ==
  AllCompleted =>
    \A p \in Procs :
      Succeeded(p) => svcTaskDef[args[p].service] = Highest(args[p].task_definition_family)

\* C17, amended: when the invocation started last has completed successfully
\* and no other invocation was inside a call when it started, the service
\* runs the revision it registered, which is the highest-numbered revision of
\* the family.
C17_ServiceAtHighestAfterSerialDeploy ==
  \A p \in Procs :
    (Succeeded(p) /\ start[p].id = deploys /\ start[p].running = {}) =>
      /\ svcTaskDef[args[p].service] = Highest(args[p].task_definition_family)
      /\ svcTaskDef[args[p].service] = new_task_definition_arn[p]

\* two deploys, one after the other, both completed: the service runs the
\* third revision of the family
C17_Witness ==
  \E p \in Procs :
    /\ AllCompleted /\ deploys = 2
    /\ Succeeded(p) /\ start[p].id = deploys /\ start[p].running = {}
    /\ svcTaskDef[args[p].service] = Arn(args[p].task_definition_family, 3)
    /\ Len(revs[args[p].task_definition_family]) = 3

C19_RegisteredInGivenFamily ==
  \A p \in Procs :
    LET f == args[p].task_definition_family IN
    /\ \A i \in CallsOf(p, "list_task_definitions") : calls[p][i].arg.familyPrefix = f
    /\ latest_task_definition_arn[p] # NoArn => latest_task_definition_arn[p].family = f
    /\ \A i \in CallsOf(p, "register_task_definition") :
         /\ calls[p][i].arg["family"] = Fetched(p)["family"]
         /\ calls[p][i].arg["family"] = f
         /\ calls[p][i].ok => calls[p][i].ret.taskDefinitionArn.family = f
    /\ new_task_definition_arn[p] # NoArn =>
         /\ new_task_definition_arn[p].family = f
         /\ Body(new_task_definition_arn[p])["family"] = f
         /\ \A g \in Families \ {f} : revs[g] = start[p].revs[g]

\* a deploy for batch-task registered its second revision while the other
\* family, web-task, kept the revisions it had
C19_Witness ==
  \E p \in Procs :
    /\ Succeeded(p)
    /\ args[p].task_definition_family = "batch-task"
    /\ new_task_definition_arn[p] = Arn("batch-task", Len(start[p].revs["batch-task"]) + 1)
    /\ revs["web-task"] = start[p].revs["web-task"] /\ revs["web-task"] # <<>>

(* ------------------------------ C20 ------------------------------------ *)
Credentials == { SecretNames[k] : k \in DOMAIN SecretNames }
CredentialValues == { SecretValue[c] : c \in Credentials }

\* the calls of invocation p that resolved credential c
Resolutions(p, c) == { i \in CallsOf(p, "plaintext") : calls[p][i].arg.secret = c }

\* the strings of a log entry
Strings(entry) ==
  {entry.msg}
  \cup (IF "arn" \in DOMAIN entry THEN {entry.arn.family} ELSE {})
  \cup (IF "error" \in DOMAIN entry THEN {entry.error.type, entry.error.detail} ELSE {})

\* C20: within one invocation each of the three credentials is resolved at
\* most once, and only after publish, the last step of push, succeeded; an
\* invocation that went on to construct its client resolved each exactly
\* once, in the order access key, secret key, session token, and an
\* invocation resolves them itself however many invocations came before it.
\* No entry of the log (latest ARN, new ARN, error) holds a credential
\* value, nor does the exception raised or the confirmation returned.
C20_CredentialsOncePerInvocation ==
  \A p \in Procs :
    LET cs == calls[p]
        P == CallsOf(p, "plaintext")
        B == CallsOf(p, "boto3.client")
    IN
    /\ Cardinality(P) <= Len(SecretNames)
    /\ \A i \in P :
         /\ cs[i].arg.secret = SecretNames[Cardinality({ j \in P : j <= i })]
         /\ \E j \in 1..(i - 1) : cs[j].op = "publish" /\ cs[j].ok
    /\ B # {} =>
         /\ Cardinality(P) = Len(SecretNames)
         /\ \A i \in P :
              /\ cs[i].ok /\ cs[i].ret.value = SecretValue[cs[i].arg.secret]
              /\ \A j \in B : i < j
    /\ pc[p] \in {"list", "describe", "derive", "register", "update", "done"} => B # {}
    /\ \A i \in DOMAIN log[p] : Strings(log[p][i]) \cap CredentialValues = {}
    /\ {raised[p].type, raised[p].detail, result[p].service,
         result[p].taskDefinition.family} \cap CredentialValues = {}

\* the second invocation of a caller resolved the three credentials again,
\* after an invocation that had resolved them and registered, and logged an
\* error
C20_Witness ==
  \E p \in Procs :
    /\ deploys = 2 /\ start[p].id = 2
    /\ Len(registrations) = 1 /\ new_task_definition_arn[p] = NoArn
    /\ \A c \in Credentials : Cardinality(Resolutions(p, c)) = 1
    /\ pc[p] = "raised" /\ Len(log[p]) > 0
====
